---- MODULE Spec2Model ----
(***************************************************************************)
(* Model of record.py: the `record` decorator, which rewrites a function's *)
(* statement tree so that a state-capture call follows every statement,    *)
(* recompiles it into the function's module, and returns a wrapper that    *)
(* dumps the captured state to a trace file after every call.              *)
(*                                                                         *)
(* Statement trees are records shaped like the nodes of Python's `ast`     *)
(* module: `kind` is the node class, `lineno` its line, and a node has a   *)
(* `body` / `orelse` / `handlers` field exactly when the Python node has   *)
(* that attribute (the rewriter dispatches on hasattr).                    *)
(***************************************************************************)
EXTENDS Integers, Sequences, FiniteSets, TLC

\* ------------------------------------------------------------------ bounds

\* Calls made to the wrapper in one run.
MaxCalls == 3
\* Calls made to `record` in one run.
MaxRecords == 3
\* The argument of a call ranges over 0..MaxArg.
MaxArg == 2

\* ------------------------------------------------------ program constants

RECORD_FN_NAME == "_record_state_fn_hidden_123"
RETVAL_NAME == "_retval_hidden_123"

\* Python's None, as an expression and as a value.
NoneExpr == [e |-> "None"]
NoneVal == [k |-> "none", v |-> 0]

\* ---------------------------------------------------------------- the AST

Num(n) == [e |-> "Num", n |-> n]
Name(id) == [e |-> "Name", id |-> id]
EmptyList == [e |-> "List"]

Assign(l, target, value) ==
    [kind |-> "Assign", lineno |-> l, target |-> target, value |-> value]
AugAssign(l, target, value) ==
    [kind |-> "AugAssign", lineno |-> l, target |-> target, value |-> value]
\* The expression statement `target.append(value)`.
AppendCall(l, target, value) ==
    [kind |-> "Expr", lineno |-> l, call |-> "append", target |-> target, value |-> value]
Pass(l) == [kind |-> "Pass", lineno |-> l]
Raise(l) == [kind |-> "Raise", lineno |-> l]
Break(l) == [kind |-> "Break", lineno |-> l]
Continue(l) == [kind |-> "Continue", lineno |-> l]
Return(l, value) == [kind |-> "Return", lineno |-> l, value |-> value]
If(l, test, body, orelse) ==
    [kind |-> "If", lineno |-> l, test |-> test, body |-> body, orelse |-> orelse]
While(l, test, body, orelse) ==
    [kind |-> "While", lineno |-> l, test |-> test, body |-> body, orelse |-> orelse]
\* `for target in range(iter): body else: orelse`
For(l, target, iter, body, orelse) ==
    [kind |-> "For", lineno |-> l, target |-> target, iter |-> iter,
     body |-> body, orelse |-> orelse]
ExceptHandler(l, body) == [kind |-> "ExceptHandler", lineno |-> l, body |-> body]
TryExcept(l, body, handlers, orelse) ==
    [kind |-> "TryExcept", lineno |-> l, body |-> body, handlers |-> handlers,
     orelse |-> orelse]

hasattr(item, attr) == attr \in DOMAIN item

\* ------------------------------------------------------------ the rewriter

\* An expression statement calling the capture function with the line and locals().
_make_record_state_call_expr(lineno) ==
    [kind |-> "Expr", lineno |-> 0, call |-> RECORD_FN_NAME, n |-> lineno]

\* A return rewrite that captures before the value is assigned.
ReturnCaptureFirst(item) ==
    << _make_record_state_call_expr(item.lineno),
       [kind |-> "Assign", lineno |-> 0, target |-> RETVAL_NAME, value |-> item.value],
       [kind |-> "Return", lineno |-> 0, value |-> Name(RETVAL_NAME)] >>

\* `return e` becomes: retval = e; capture(line); return retval.
_make_return_trace_call_exprs(item) ==
    << [kind |-> "Assign", lineno |-> 0, target |-> RETVAL_NAME, value |-> item.value],
       _make_record_state_call_expr(item.lineno),
       [kind |-> "Return", lineno |-> 0, value |-> Name(RETVAL_NAME)] >>

RECURSIVE _fill_body_with_record(_, _, _)
RECURSIVE FillItems(_)
RECURSIVE FillHandlers(_)

\* Handlers rewritten with a capture call prepended, like an else branch.
FillHandlersPrepend(handlers) ==
    IF handlers = <<>> THEN <<>>
    ELSE LET handler == Head(handlers)
         IN  << [handler EXCEPT !.body =
                    _fill_body_with_record(handler.body, TRUE, handler.lineno)] >>
             \o FillHandlers(Tail(handlers))

\* The handlers of a try statement, each body rewritten without a prepended call.
FillHandlers(handlers) ==
    IF handlers = <<>> THEN <<>>
    ELSE LET handler == Head(handlers)
         IN  << [handler EXCEPT !.body =
                    _fill_body_with_record(handler.body, FALSE, handler.lineno)] >>
             \o FillHandlers(Tail(handlers))

\* The nested bodies of an item rewritten, as lines 153-177 do.
FillNested(item) ==
    LET i1 == IF hasattr(item, "body")
              THEN [item EXCEPT !.body =
                      _fill_body_with_record(item.body, TRUE, item.lineno)]
              ELSE item
        i2 == IF hasattr(item, "orelse")
              THEN [i1 EXCEPT !.orelse =
                      _fill_body_with_record(item.orelse, item.kind # "TryExcept",
                                             item.lineno)]
              ELSE i1
    IN  IF hasattr(item, "handlers")
        THEN [i2 EXCEPT !.handlers = FillHandlers(item.handlers)]
        ELSE i2

\* A loop pass that appends a capture call after every item, nested or not.
FillItemAlwaysAppend(item) ==
    IF item.kind = "Return" THEN _make_return_trace_call_exprs(item)
    ELSE <<FillNested(item), _make_record_state_call_expr(item.lineno)>>

\* A loop pass that puts the capture call before a plain item.
FillItemCaptureFirst(item) ==
    IF item.kind = "Return" THEN _make_return_trace_call_exprs(item)
    ELSE IF hasattr(item, "body") THEN <<FillNested(item)>>
    ELSE <<_make_record_state_call_expr(item.lineno), item>>

\* A loop pass that puts the capture call before break, continue and raise.
FillItemTransferFirst(item) ==
    IF item.kind = "Return" THEN _make_return_trace_call_exprs(item)
    ELSE IF hasattr(item, "body") THEN <<FillNested(item)>>
    ELSE IF item.kind \in {"Break", "Continue", "Raise"}
         THEN <<_make_record_state_call_expr(item.lineno), item>>
    ELSE <<item, _make_record_state_call_expr(item.lineno)>>

\* One pass of the loop over original_body: what the item adds to new_body.
FillItem(item) ==
    IF item.kind = "Return" THEN _make_return_trace_call_exprs(item)
    ELSE
      LET has_nested == hasattr(item, "body") \/ hasattr(item, "orelse")
                            \/ hasattr(item, "handlers")
          i1 == IF hasattr(item, "body")
                THEN [item EXCEPT !.body =
                        _fill_body_with_record(item.body, TRUE, item.lineno)]
                ELSE item
          i2 == IF hasattr(item, "orelse")
                THEN [i1 EXCEPT !.orelse =
                        _fill_body_with_record(item.orelse, item.kind # "TryExcept",
                                               item.lineno)]
                ELSE i1
          i3 == IF hasattr(item, "handlers")
                THEN [i2 EXCEPT !.handlers = FillHandlers(item.handlers)]
                ELSE i2
      IN  <<i3>> \o (IF has_nested THEN <<>>
                     ELSE <<_make_record_state_call_expr(item.lineno)>>)

FillItems(items) ==
    IF items = <<>> THEN <<>>
    ELSE FillItem(Head(items)) \o FillItems(Tail(items))

\* A rewriter that prepends the capture call twice.
FillPrependTwice(original_body, prepend, lineno) ==
    (IF prepend
     THEN <<_make_record_state_call_expr(lineno), _make_record_state_call_expr(lineno)>>
     ELSE <<>>)
        \o FillItems(original_body)

\* A rewriter that never prepends a capture call to a nested body.
FillWithoutPrepend(original_body, prepend, lineno) == FillItems(original_body)

_fill_body_with_record(original_body, prepend, lineno) ==
    (IF prepend THEN <<_make_record_state_call_expr(lineno)>> ELSE <<>>)
        \o FillItems(original_body)

\* ------------------------------------------------- values, heap and copying

\* A value is an int, None, or a reference to a mutable list held in the heap
\* (a sequence of lists of ints; a reference is an index into it).
IntVal(n) == [k |-> "int", v |-> n]
RefVal(r) == [k |-> "ref", v |-> r]

\* What a value looks like to a reader (json.dump, the caller): a list by content.
View(val, heap) ==
    IF val.k = "ref" THEN [k |-> "list", items |-> heap[val.v]] ELSE val

ViewLocals(f_locals, heap) == [n \in DOMAIN f_locals |-> View(f_locals[n], heap)]

Truthy(val, heap) ==
    CASE val.k = "int" -> val.v # 0
      [] val.k = "ref" -> heap[val.v] # <<>>
      [] OTHER -> FALSE

Bind(f_locals, id, val) ==
    [n \in (DOMAIN f_locals) \cup {id} |-> IF n = id THEN val ELSE f_locals[n]]

\* The value of an expression and the heap after evaluating it ([] allocates).
Eval(expr, f_locals, heap) ==
    CASE expr.e = "Num" -> [val |-> IntVal(expr.n), heap |-> heap]
      [] expr.e = "Name" -> [val |-> f_locals[expr.id], heap |-> heap]
      [] expr.e = "List" -> [val |-> RefVal(Len(heap) + 1), heap |-> Append(heap, <<>>)]
      [] OTHER -> [val |-> NoneVal, heap |-> heap]

\* A copy of the bindings that shares every list with the original.
ShallowCopy(f_locals, heap) == [value |-> f_locals, heap |-> heap]

\* copy.deepcopy of the dict of locals: every list it reaches is copied into a
\* fresh object (two names for one list still share one copy).
deepcopy(f_locals, heap) ==
    LET refs == {f_locals[n].v : n \in {m \in DOMAIN f_locals : f_locals[m].k = "ref"}}
        rank(r) == Cardinality({q \in refs : q <= r})
        old(i) == CHOOSE r \in refs : rank(r) = i
    IN  [value |-> [n \in DOMAIN f_locals |->
                      IF f_locals[n].k = "ref"
                      THEN RefVal(Len(heap) + rank(f_locals[n].v))
                      ELSE f_locals[n]],
         heap |-> heap \o [i \in 1..Cardinality(refs) |-> heap[old(i)]]]

\* ------------------------------------------------------- running a body

\* A configuration of a running function body:
\*   cont    the statements still to run, with a marker closing each open loop
\*           and try block
\*   locals  the frame's local bindings;  heap  the objects
\*   data    _record_store_hidden_123['data']
\*   path    the lines of the statements executed so far (line 0: injected code)
\*   status  "running", "returned" (ret is the value) or "raised"
LoopMarker(stmt, i, n) == [kind |-> "loop", stmt |-> stmt, i |-> i, n |-> n]
TryMarker(stmt) == [kind |-> "try", stmt |-> stmt]

RECURSIVE UnwindTo(_, _)
\* The continuation from its first marker of the given kind on (empty: none).
UnwindTo(kind, cont) ==
    IF cont = <<>> THEN <<>>
    ELSE IF Head(cont).kind = kind THEN cont
    ELSE UnwindTo(kind, Tail(cont))

Visit(path, lineno) == IF lineno = 0 THEN path ELSE Append(path, lineno)

\* The capture function: appends (lineno, deep copy of the locals) to the store.
_record_state_fn_hidden_123(lineno, f_locals, data, heap) ==
    LET copy == deepcopy(f_locals, heap)
    IN  [data |-> Append(data, [lineno |-> lineno, f_locals |-> copy.value]),
         heap |-> copy.heap]

\* One iteration step of a loop: the header is evaluated, then the body or the
\* else branch is entered.
LoopStep(c, stmt, i, n, rest) ==
    LET visited == [c EXCEPT !.path = Visit(c.path, stmt.lineno)]
    IN  IF stmt.kind = "While"
        THEN IF Truthy(c.locals[stmt.test], c.heap)
             THEN [visited EXCEPT !.cont = stmt.body \o <<LoopMarker(stmt, 0, 0)>> \o rest]
             ELSE [visited EXCEPT !.cont = stmt.orelse \o rest]
        ELSE IF i < n
             THEN [visited EXCEPT !.cont = stmt.body \o <<LoopMarker(stmt, i + 1, n)>> \o rest,
                                  !.locals = Bind(c.locals, stmt.target, IntVal(i))]
             ELSE [visited EXCEPT !.cont = stmt.orelse \o rest]

\* An exception: control goes to the handler of the innermost open try block,
\* or leaves the function.
RaiseStep(c, rest) ==
    LET tail == UnwindTo("try", rest)
    IN  IF tail = <<>>
        THEN [c EXCEPT !.cont = <<>>, !.status = "raised"]
        ELSE [c EXCEPT !.cont = Head(tail).stmt.handlers[1].body \o Tail(tail)]

\* One step of the body.
Step(c) ==
    IF c.cont = <<>> THEN [c EXCEPT !.status = "returned", !.ret = NoneVal]
    ELSE
    LET s == Head(c.cont)
        rest == Tail(c.cont)
        v == IF s.kind \in {"loop", "try"} THEN c
             ELSE [c EXCEPT !.path = Visit(c.path, s.lineno), !.cont = rest]
    IN  CASE s.kind = "Assign" ->
               LET r == Eval(s.value, c.locals, c.heap)
               IN  [v EXCEPT !.locals = Bind(c.locals, s.target, r.val), !.heap = r.heap]
          [] s.kind = "AugAssign" ->
               LET r == Eval(s.value, c.locals, c.heap)
               IN  [v EXCEPT !.locals = Bind(c.locals, s.target,
                                             IntVal(c.locals[s.target].v + r.val.v))]
          [] s.kind = "Expr" ->
               IF s.call = RECORD_FN_NAME
               THEN LET r == _record_state_fn_hidden_123(s.n, c.locals, c.data, c.heap)
                    IN  [v EXCEPT !.data = r.data, !.heap = r.heap]
               ELSE LET r == Eval(s.value, c.locals, c.heap)
                    IN  [v EXCEPT !.heap = [c.heap EXCEPT ![c.locals[s.target].v] =
                                                Append(@, r.val.v)]]
          [] s.kind = "Pass" -> v
          [] s.kind = "Return" ->
               LET r == Eval(s.value, c.locals, c.heap)
               IN  [v EXCEPT !.cont = <<>>, !.status = "returned",
                             !.ret = View(r.val, r.heap), !.heap = r.heap]
          [] s.kind = "Raise" -> RaiseStep(v, rest)
          [] s.kind = "Break" -> [v EXCEPT !.cont = Tail(UnwindTo("loop", rest))]
          [] s.kind = "Continue" -> [v EXCEPT !.cont = UnwindTo("loop", rest)]
          [] s.kind = "If" ->
               [v EXCEPT !.cont = (IF Truthy(c.locals[s.test], c.heap)
                                   THEN s.body ELSE s.orelse) \o rest]
          [] s.kind = "While" -> LoopStep(c, s, 0, 0, rest)
          [] s.kind = "For" ->
               LoopStep(c, s, 0, Eval(s.iter, c.locals, c.heap).val.v, rest)
          [] s.kind = "loop" -> LoopStep(c, s.stmt, s.i, s.n, rest)
          [] s.kind = "TryExcept" -> [v EXCEPT !.cont = s.body \o <<TryMarker(s)>> \o rest]
          \* The try body ended without an exception: its else branch runs.
          [] s.kind = "try" -> [c EXCEPT !.cont = s.stmt.orelse \o rest]

StartConfig(body, f_locals, data, heap) ==
    [cont |-> body, locals |-> f_locals, heap |-> heap, data |-> data,
     path |-> <<>>, status |-> "running", ret |-> NoneVal]

RECURSIVE Run(_)
\* The configuration in which the body has returned or raised.
Run(c) == IF c.status # "running" THEN c ELSE Run(Step(c))

\* ------------------------------------------------------- json and the file

\* json.dump of the record store: the text holds every snapshot's bindings as
\* they are when the dump is made (a list by its content).
json_dump(store, heap) ==
    [data |-> [i \in 1..Len(store.data) |->
                 <<store.data[i].lineno, ViewLocals(store.data[i].f_locals, heap)>>]]

dump_recorded_state(file, store, heap) == Append(file, json_dump(store, heap))

dump_fn_source(file, source) == Append(file, [source |-> source])

\* --------------------------------------------------- the traced functions

\* The functions `record` is applied to: each takes one argument x; the
\* decorator is on line 1, `def` on line 2 and the body starts on line 3.
\* `source` says whether inspect.getsource can retrieve the definition.
FunctionDef(name, source, body) == [name |-> name, source |-> source, body |-> body]

FUNCTIONS ==
    << FunctionDef("foo", TRUE, <<Return(3, Num(3))>>),
       FunctionDef("cond", TRUE,
           << If(3, "x", <<Return(4, Num(1))>>, <<>>),
              Return(5, Num(2)) >>),
       FunctionDef("total", TRUE,
           << Assign(3, "total", Num(0)),
              For(4, "i", Name("x"), <<AugAssign(5, "total", Name("i"))>>, <<>>),
              Return(6, Name("total")) >>),
       FunctionDef("countdown", TRUE,
           << While(3, "x", <<AugAssign(4, "x", Num(-1))>>,
                    <<Assign(6, "done", Num(1))>>),
              Return(7, Name("x")) >>),
       FunctionDef("mutate", TRUE,
           << Assign(3, "a", EmptyList),
              AppendCall(4, "a", Num(1)),
              Assign(5, "b", Name("a")),
              AppendCall(6, "b", Name("x")),
              Assign(7, "a", Num(0)),
              Return(8, Name("b")) >>),
       FunctionDef("fails", TRUE,
           << Assign(3, "y", Num(1)),
              If(4, "x", <<Raise(5)>>, <<>>),
              Return(6, Name("y")) >>),
       FunctionDef("nothing", TRUE, <<Pass(3)>>),
       FunctionDef("bare", TRUE,
           << If(3, "x", <<Return(4, NoneExpr)>>, <<>>),
              Pass(5) >>),
       FunctionDef("guarded", TRUE,
           << TryExcept(3, << If(4, "x", <<Raise(5)>>, <<>>),
                              Assign(6, "y", Num(1)) >>,
                        <<ExceptHandler(7, <<Assign(8, "y", Num(2))>>)>>,
                        <<Assign(10, "y", Num(3))>>),
              Return(11, Name("y")) >>),
       FunctionDef("search", TRUE,
           << While(3, "x", << AugAssign(4, "x", Num(-1)),
                               If(5, "x", <<Continue(6)>>, <<>>),
                               Break(7) >>,
                    <<Pass(9)>>),
              Return(10, Name("x")) >>),
       FunctionDef("branch", TRUE,
           << If(3, "x", <<Assign(4, "y", Num(1))>>, <<Assign(6, "y", Num(2))>>),
              For(7, "i", Name("x"),
                  <<If(8, "i", <<AugAssign(9, "y", Name("i"))>>, <<>>)>>,
                  <<Assign(11, "z", Num(0))>>),
              Return(12, Name("y")) >>),
       FunctionDef("dynamic", FALSE, <<Pass(3)>>) >>

Fns == 1..Len(FUNCTIONS)

RECURSIVE CompileOk(_)
\* compile() of a rewritten body: an Assign node needs a value expression, and the
\* rewritten bare `return` is an Assign of no value.
CompileOk(body) ==
    \A i \in 1..Len(body) :
        LET item == body[i]
        IN  /\ item.kind = "Assign" => item.value # NoneExpr
            /\ hasattr(item, "body") => CompileOk(item.body)
            /\ hasattr(item, "orelse") => CompileOk(item.orelse)
            /\ hasattr(item, "handlers") =>
                   \A h \in 1..Len(item.handlers) : CompileOk(item.handlers[h].body)

\* ---------------------------------------------------------------- state

VARIABLES
    num_fns_recorded,           \* module global: functions recorded so far
    _blocked,                   \* module global: the guard against re-entrant use
    _record_store_hidden_123,   \* module global: None, or {'data': [...]}
    env,                        \* the traced function's module: what its name is
                                \* bound to, and whether the capture function is in
    wrapped,                    \* the closure `record` returned: f, first_dump_call
    file,                       \* the lines written to the trace file
    heap,                       \* the objects of the process
    pc,                         \* "idle", "exec" (inside record's exec), "body"
                                \* (inside a call of the wrapper), "dead"
    pending,                    \* the call of `record` that is inside exec
    frame,                      \* the running body of the traced function
    recordCalls,                \* history: calls of `record` made so far
    lastRecord,                 \* history: how the latest call of `record` ended
    calls,                      \* history: calls of the wrapper made so far
    call,                       \* history: the current (or latest) wrapper call
    owner,                      \* history: for each snapshot in the store, the
                                \* number of the wrapper call that captured it
    raised,                     \* history: the wrapper calls that ended by raising
    dumps                       \* history: for each execution record written to
                                \* the file, the call that wrote it and its argument

vars == << num_fns_recorded, _blocked, _record_store_hidden_123, env, wrapped, file,
           heap, pc, pending, frame, recordCalls, lastRecord, calls, call, owner,
           raised, dumps >>

None == [none |-> TRUE]
NoFrame == [cont |-> <<>>, locals |-> <<>>, path |-> <<>>, status |-> "none",
            ret |-> NoneVal]
NoCall == [n |-> 0, arg |-> 0, first |-> 0, outcome |-> "none", ret |-> NoneVal]

Init ==
    /\ num_fns_recorded = 0
    /\ _blocked = FALSE
    /\ _record_store_hidden_123 = None
    /\ env = [fn |-> None, record_fn |-> FALSE]
    /\ wrapped = None
    /\ file = <<>>
    /\ heap = <<>>
    /\ pc = "idle"
    /\ pending = None
    /\ frame = NoFrame
    /\ recordCalls = 0
    /\ lastRecord = [outcome |-> "none"]
    /\ calls = 0
    /\ call = NoCall
    /\ owner = <<>>
    /\ raised = {}
    /\ dumps = <<>>

callVars == << frame, calls, call, owner, raised, dumps >>
sessionVars == << _record_store_hidden_123, wrapped, file, heap >>

\* ------------------------------------------------------------- record(f)

\* A guard that lets a second function through.
AlreadyRecordedOffByOne(n) == n > 1

\* Line 50: a function has been recorded already.
AlreadyRecorded(n) == n # 0

\* A guarded return placed after the counting of the function.
RecordBlockedCounts(f) ==
    /\ _blocked
    /\ \/ pc = "exec" /\ pending.decorated /\ f = pending.f
          /\ pending' = [pending EXCEPT !.decorated = FALSE]
       \/ pc = "idle" /\ recordCalls < MaxRecords
          /\ pending' = pending
    /\ num_fns_recorded' = num_fns_recorded + 1
    /\ recordCalls' = recordCalls + 1
    /\ lastRecord' = [outcome |-> "unchanged", value |-> f]
    /\ UNCHANGED << _blocked, env, pc, sessionVars, callVars >>

\* Lines 46-47: `record` is called while the guard is set and returns f itself.
\* The call comes from the decorator line of the definition being executed by
\* exec, or from the program when an earlier exec left the guard set.
RecordBlocked(f) ==
    /\ _blocked
    /\ \/ pc = "exec" /\ pending.decorated /\ f = pending.f
          /\ pending' = [pending EXCEPT !.decorated = FALSE]
       \/ pc = "idle" /\ recordCalls < MaxRecords
          /\ pending' = pending
    /\ recordCalls' = recordCalls + 1
    /\ lastRecord' = [outcome |-> "unchanged", value |-> f]
    /\ UNCHANGED << num_fns_recorded, _blocked, env, pc, sessionVars, callVars >>

\* Lines 50-51: a second function is refused.
RecordRefused(f) ==
    /\ pc = "idle" /\ recordCalls < MaxRecords
    /\ ~_blocked
    /\ AlreadyRecorded(num_fns_recorded)
    /\ recordCalls' = recordCalls + 1
    /\ lastRecord' = [outcome |-> "ValueError"]
    /\ UNCHANGED << num_fns_recorded, _blocked, env, pc, pending, sessionVars, callVars >>

\* Lines 52-54: the function is counted, then inspect.getsource raises.
RecordNoSource(f) ==
    /\ pc = "idle" /\ recordCalls < MaxRecords
    /\ ~_blocked
    /\ ~AlreadyRecorded(num_fns_recorded)
    /\ ~FUNCTIONS[f].source
    /\ num_fns_recorded' = num_fns_recorded + 1
    /\ recordCalls' = recordCalls + 1
    /\ lastRecord' = [outcome |-> "IOError"]
    /\ UNCHANGED << _blocked, env, pc, pending, sessionVars, callVars >>

\* Lines 52-62: the function is counted, its body rewritten, and compile() does
\* not accept the tree: it raises, or (no validation of the tree) the
\* interpreter dies.
RecordCompileError(f, dies) ==
    /\ pc = "idle" /\ recordCalls < MaxRecords
    /\ ~_blocked
    /\ ~AlreadyRecorded(num_fns_recorded)
    /\ FUNCTIONS[f].source
    /\ ~CompileOk(_fill_body_with_record(FUNCTIONS[f].body, FALSE, 0))
    /\ num_fns_recorded' = num_fns_recorded + 1
    /\ recordCalls' = recordCalls + 1
    /\ lastRecord' = [outcome |-> "CompileError"]
    /\ pc' = IF dies THEN "dead" ELSE "idle"
    /\ UNCHANGED << _blocked, env, pending, sessionVars, callVars >>

\* Lines 52-68, up to the start of exec: the function is counted, its body
\* rewritten and compiled, the capture function injected and the guard set.
\*   decorated   the source text starts with the decorator line, so the
\*               definition exec runs calls `record` again
\*   rebinds     the caller binds what `record` returns to the function's own
\*               name in its module (decorator syntax at module level)
\*   def_raises  executing the definition raises (a default argument, another
\*               decorator of the function)
RecordExec(f, decorated, rebinds, def_raises) ==
    /\ pc = "idle" /\ recordCalls < MaxRecords
    /\ ~_blocked
    /\ ~AlreadyRecorded(num_fns_recorded)
    /\ FUNCTIONS[f].source
    /\ CompileOk(_fill_body_with_record(FUNCTIONS[f].body, FALSE, 0))
    /\ num_fns_recorded' = num_fns_recorded + 1
    /\ env' = [env EXCEPT !.record_fn = TRUE]
    /\ _blocked' = TRUE
    /\ pc' = "exec"
    /\ pending' = [f |-> f, decorated |-> decorated, rebinds |-> rebinds,
                   def_raises |-> def_raises,
                   new_body |-> _fill_body_with_record(FUNCTIONS[f].body, FALSE, 0)]
    /\ recordCalls' = recordCalls + 1
    /\ lastRecord' = [outcome |-> "running"]
    /\ UNCHANGED << sessionVars, callVars >>

\* Line 68 raises: the exception leaves `record`; line 69 is not reached.
ExecRaise ==
    /\ pc = "exec"
    /\ pending.def_raises
    /\ pc' = "idle"
    /\ pending' = None
    /\ lastRecord' = [outcome |-> "ExecError"]
    /\ UNCHANGED << num_fns_recorded, _blocked, env, recordCalls, sessionVars, callVars >>

\* Lines 68-95: exec binds the recompiled function to its name, the guard is
\* cleared, the store and the file are created and the wrapper is returned;
\* then the caller binds the wrapper where it wants it.
RecordReturn ==
    /\ pc = "exec"
    /\ ~pending.decorated /\ ~pending.def_raises
    /\ env' = [env EXCEPT !.fn = IF pending.rebinds THEN [is |-> "wrapped"]
                                 ELSE [is |-> "function", body |-> pending.new_body]]
    /\ _blocked' = FALSE
    /\ _record_store_hidden_123' = [data |-> <<>>]
    /\ wrapped' = [f |-> pending.f, first_dump_call |-> TRUE]
    /\ file' = <<>>
    /\ owner' = <<>>
    /\ dumps' = <<>>
    /\ pc' = "idle"
    /\ pending' = None
    /\ lastRecord' = [outcome |-> "wrapped"]
    /\ UNCHANGED << num_fns_recorded, heap, recordCalls, frame, calls, call, raised >>

\* ------------------------------------------------------- wrapped(*args)

\* Line 87, when the function's name is bound to the wrapper itself: the wrapper
\* calls itself until the interpreter's recursion limit raises RuntimeError;
\* no frame gets past line 87.
WrappedRecursion(x) ==
    /\ pc = "idle" /\ wrapped # None /\ calls < MaxCalls
    /\ env.fn.is = "wrapped"
    /\ calls' = calls + 1
    /\ call' = [n |-> calls + 1, arg |-> x, first |-> Len(_record_store_hidden_123.data),
                outcome |-> "RuntimeError", ret |-> NoneVal]
    /\ raised' = raised \cup {calls + 1}
    /\ UNCHANGED << num_fns_recorded, _blocked, env, pc, pending, sessionVars, frame,
                    owner, dumps, recordCalls, lastRecord >>

\* Line 87: the wrapper calls the function bound to the name in the module.
WrappedCall(x) ==
    /\ pc = "idle" /\ wrapped # None /\ calls < MaxCalls
    /\ env.fn.is = "function"
    /\ pc' = "body"
    /\ frame' = [cont |-> env.fn.body, locals |-> [n \in {"x"} |-> IntVal(x)],
                 path |-> <<>>, status |-> "running", ret |-> NoneVal]
    /\ calls' = calls + 1
    /\ call' = [n |-> calls + 1, arg |-> x, first |-> Len(_record_store_hidden_123.data),
                outcome |-> "running", ret |-> NoneVal]
    /\ UNCHANGED << num_fns_recorded, _blocked, env, pending, sessionVars, owner, raised,
                    dumps, recordCalls, lastRecord >>

\* The body of the function runs one statement.
BodyStep ==
    /\ pc = "body" /\ frame.status = "running"
    /\ LET c == Step([cont |-> frame.cont, locals |-> frame.locals, heap |-> heap,
                      data |-> _record_store_hidden_123.data, path |-> frame.path,
                      status |-> frame.status, ret |-> frame.ret])
       IN  /\ frame' = [cont |-> c.cont, locals |-> c.locals, path |-> c.path,
                        status |-> c.status, ret |-> c.ret]
           /\ heap' = c.heap
           /\ _record_store_hidden_123' = [_record_store_hidden_123 EXCEPT !.data = c.data]
           /\ owner' = IF Len(c.data) > Len(owner) THEN Append(owner, call.n) ELSE owner
    /\ UNCHANGED << num_fns_recorded, _blocked, env, wrapped, file, pc, pending, calls,
                    call, raised, dumps, recordCalls, lastRecord >>

\* Lines 89-93: the function returned; the source (on the first dump) and the
\* store are written to the file and the value is returned.
WrappedReturn ==
    /\ pc = "body" /\ frame.status = "returned"
    /\ file' = dump_recorded_state(
                   IF wrapped.first_dump_call
                   THEN dump_fn_source(file, FUNCTIONS[wrapped.f].name)
                   ELSE file,
                   _record_store_hidden_123, heap)
    /\ call' = [call EXCEPT !.outcome = "returned", !.ret = frame.ret]
    /\ dumps' = Append(dumps, [n |-> call.n, arg |-> call.arg])
    /\ pc' = "idle"
    /\ frame' = NoFrame
    /\ UNCHANGED << num_fns_recorded, _blocked, _record_store_hidden_123, env, wrapped,
                    heap, pending, calls, owner, raised, recordCalls, lastRecord >>

\* Line 87 raises: the exception leaves the wrapper; lines 89-93 are not reached.
WrappedRaise ==
    /\ pc = "body" /\ frame.status = "raised"
    /\ call' = [call EXCEPT !.outcome = "raised"]
    /\ raised' = raised \cup {call.n}
    /\ pc' = "idle"
    /\ frame' = NoFrame
    /\ UNCHANGED << num_fns_recorded, _blocked, env, pending, sessionVars, calls, owner,
                    dumps, recordCalls, lastRecord >>

Next ==
    \/ \E f \in Fns : RecordBlocked(f)
    \/ \E f \in Fns : RecordRefused(f)
    \/ \E f \in Fns : RecordNoSource(f)
    \/ \E f \in Fns, dies \in BOOLEAN : RecordCompileError(f, dies)
    \/ \E f \in Fns, decorated, rebinds, def_raises \in BOOLEAN :
           RecordExec(f, decorated, rebinds, def_raises)
    \/ ExecRaise
    \/ RecordReturn
    \/ \E x \in 0..MaxArg : WrappedRecursion(x)
    \/ \E x \in 0..MaxArg : WrappedCall(x)
    \/ BodyStep
    \/ WrappedReturn
    \/ WrappedRaise

Spec == Init /\ [][Next]_vars

\* ------------------------------------------------- what the claims speak of

\* The untraced function f called with x: its own body, run to the end.
Reference(f, x) ==
    Run(StartConfig(FUNCTIONS[f].body, [n \in {"x"} |-> IntVal(x)], <<>>, <<>>))

IsSource(line) == "source" \in DOMAIN line
IsData(line) == "data" \in DOMAIN line

\* The execution records of the file, in the order written.
ExecLines(lines) == SelectSeq(lines, IsData)
SourceLines(lines) == SelectSeq(lines, IsSource)

\* The wrapper calls that have returned to their caller with a value.
Completed == calls - Cardinality(raised) - (IF pc = "body" THEN 1 ELSE 0)

\* The snapshots the current (or latest) wrapper call has captured.
Captured ==
    SubSeq(_record_store_hidden_123.data, call.first + 1,
           Len(_record_store_hidden_123.data))

Markers(snapshots) == [i \in 1..Len(snapshots) |-> snapshots[i].lineno]

IsPrefix(a, b) == Len(a) <= Len(b) /\ SubSeq(b, 1, Len(a)) = a

\* The execution cap of the specification when none is given (record.py takes
\* no cap).
execution_cap == 1

RECURSIVE Kinds(_)
\* The node classes a body is built from.
Kinds(body) ==
    IF body = <<>> THEN {}
    ELSE LET item == Head(body)
         IN  {item.kind}
             \cup (IF hasattr(item, "body") THEN Kinds(item.body) ELSE {})
             \cup (IF hasattr(item, "orelse") THEN Kinds(item.orelse) ELSE {})
             \cup (IF hasattr(item, "handlers")
                   THEN UNION {Kinds(item.handlers[h].body) : h \in 1..Len(item.handlers)}
                   ELSE {})
             \cup Kinds(Tail(body))

\* Built from sequential statements, if/else, while, for and return only.
Structured(f) ==
    Kinds(FUNCTIONS[f].body) \subseteq
        {"Assign", "AugAssign", "Expr", "Pass", "If", "While", "For", "Return"}

\* ------------------------------------------------------------------ claims

\* C1: once a function has been traced (a wrapper exists), every later call of
\* `record` raises ValueError: it returns nothing, and leaves the wrapper, the
\* counter and the module as they were.
C1_RegistrationExclusive ==
    [][(wrapped # None /\ recordCalls' # recordCalls)
         => /\ lastRecord'.outcome = "ValueError"
            /\ wrapped' = wrapped
            /\ num_fns_recorded' = num_fns_recorded
            /\ env' = env]_vars

\* A second call of `record` was made after a wrapper had been returned, and it
\* raised ValueError.
C1_Witness ==
    /\ wrapped # None
    /\ recordCalls >= 2
    /\ lastRecord.outcome = "ValueError"

\* C2: after N >= 1 completed calls the file holds exactly one source record,
\* and it is the first line.
C2_SourceOnce ==
    Completed >= 1 =>
        /\ file # <<>>
        /\ IsSource(file[1])
        /\ Len(SourceLines(file)) = 1

\* C3: the number of execution records in the file never exceeds the cap, and
\* is the cap once more calls than the cap have completed.
C3_CapRespected ==
    /\ Len(ExecLines(file)) <= execution_cap
    /\ Completed > execution_cap => Len(ExecLines(file)) = execution_cap

\* C4: the buffer is empty when an invocation starts, every execution record
\* holds snapshots of one invocation only, and two invocations with the same
\* argument leave records of the same content.
C4_PerCallBuffer ==
    /\ pc = "body" => call.first = 0
    /\ \A k \in 1..Len(dumps) :
           /\ \A i \in 1..Len(ExecLines(file)[k].data) : owner[i] = dumps[k].n
           /\ \A j \in 1..Len(dumps) :
                  dumps[j].arg = dumps[k].arg => ExecLines(file)[j] = ExecLines(file)[k]

\* C5: every finished call of the wrapper returned, to its caller, the value the
\* untraced function returns for that argument.
C5_ReturnPassThrough ==
    (pc = "idle" /\ wrapped # None /\ call.n > 0
        /\ Reference(wrapped.f, call.arg).status = "returned")
    => /\ call.outcome = "returned"
       /\ call.ret = Reference(wrapped.f, call.arg).ret

\* C6: a call in which the function's body ran and raised ends by raising, no
\* call that raised has written an execution record, and none of the snapshots
\* such a call captured is in an execution record of the file.
C6_ExceptionPassThrough ==
    /\ (pc = "idle" /\ call.outcome \in {"returned", "raised"}
           /\ Reference(wrapped.f, call.arg).status = "raised")
       => call.outcome = "raised"
    /\ \A k \in 1..Len(dumps) :
           /\ dumps[k].n \notin raised
           /\ \A i \in 1..Len(ExecLines(file)[k].data) : owner[i] \notin raised

\* C7: when the instrumented body of a function built from sequential
\* statements, if/else, while, for and return has returned, the line markers
\* captured during the call are, in order, the lines of the statements the
\* untraced function executes for that argument.
C7_CaptureCompleteness ==
    (pc = "body" /\ frame.status = "returned" /\ Structured(wrapped.f))
    => Markers(Captured) = Reference(wrapped.f, call.arg).path

\* `if x: return 1` / `return 2` called with x = 0 has captured the line of the
\* `if` and the line of `return 2`.
C7_Witness ==
    /\ pc = "body" /\ frame.status = "returned"
    /\ FUNCTIONS[wrapped.f].name = "cond"
    /\ call.arg = 0
    /\ Markers(Captured) = <<3, 5>>

\* C8: once the file holds as many execution records as the cap, no later step
\* captures a snapshot or writes to the file, and a later wrapper call still
\* returns the function's value.
C8_PostCap ==
    [][Len(ExecLines(file)) >= execution_cap
         => /\ file' = file
            /\ _record_store_hidden_123' = _record_store_hidden_123
            /\ (call'.n # call.n => call'.outcome \in {"running", "returned"})]_vars

\* The file after N completed calls: the source line, then N execution records,
\* the i-th one holding the snapshots of the i-th completed call.
C9_Shape ==
    Completed >= 1 =>
        /\ Len(file) = 1 + Completed
        /\ IsSource(file[1])
        /\ \A i \in 1..Completed :
               /\ IsData(file[i + 1])
               /\ \A j \in 1..Len(file[i + 1].data) : owner[j] = dumps[i].n

\* C9: the file is only appended to, and after every step it is the source line
\* followed by one execution record per completed call, in call order.
C9_OneRecordPerCall ==
    [][IsPrefix(file, file') /\ (pc' = "idle" => C9_Shape')]_vars

\* What a reader of the store sees in a snapshot.
SnapshotView(snapshot, h) ==
    [lineno |-> snapshot.lineno, f_locals |-> ViewLocals(snapshot.f_locals, h)]

\* C10: no step changes what a snapshot already in the store shows, and a
\* snapshot shows the local bindings as they were when it was captured.
C10_SnapshotIndependence ==
    [][(_record_store_hidden_123 # None /\ _record_store_hidden_123' # None
            /\ _record_store_hidden_123'.data # <<>>)
         => LET old == _record_store_hidden_123.data
                new == _record_store_hidden_123'.data
            IN  /\ Len(old) <= Len(new)
                /\ \A i \in 1..Len(old) :
                       SnapshotView(new[i], heap') = SnapshotView(old[i], heap)
                /\ Len(new) > Len(old) =>
                       SnapshotView(new[Len(new)], heap').f_locals
                           = ViewLocals(frame.locals, heap)]_vars

\* A list was captured empty, the running body has appended to it since, and
\* the name has been rebound.
C10_Witness ==
    /\ pc = "body"
    /\ \E i \in 1..Len(Captured) :
           /\ "a" \in DOMAIN Captured[i].f_locals
           /\ SnapshotView(Captured[i], heap).f_locals["a"] = [k |-> "list", items |-> <<>>]
           /\ "b" \in DOMAIN frame.locals
           /\ View(frame.locals["b"], heap) = [k |-> "list", items |-> <<1, call.arg>>]
           /\ frame.locals["a"] = IntVal(0)

\* C11: whenever a wrapper exists, the name the wrapper calls denotes the
\* instrumented function, and no finished call of the wrapper ended in the
\* wrapper calling itself without end.
C11_DispatchTerminates ==
    (wrapped # None /\ pc # "exec")
    => /\ env.fn.is = "function"
       /\ call.outcome # "RuntimeError"

RECURSIVE LinesOf(_, _)
\* The lines of the statements of the given node classes in a body.
LinesOf(kinds, body) ==
    IF body = <<>> THEN {}
    ELSE LET item == Head(body)
         IN  (IF item.kind \in kinds THEN {item.lineno} ELSE {})
             \cup (IF hasattr(item, "body") THEN LinesOf(kinds, item.body) ELSE {})
             \cup (IF hasattr(item, "orelse") THEN LinesOf(kinds, item.orelse) ELSE {})
             \cup (IF hasattr(item, "handlers")
                   THEN UNION {LinesOf(kinds, item.handlers[h].body) :
                                 h \in 1..Len(item.handlers)}
                   ELSE {})
             \cup LinesOf(kinds, Tail(body))

Last(seq) == seq[Len(seq)]

\* The untraced function leaves through a `return` statement for this argument.
ReturnsByStatement(f, x) ==
    LET ref == Reference(f, x)
    IN  /\ ref.status = "returned"
        /\ Last(ref.path) \in LinesOf({"Return"}, FUNCTIONS[f].body)

\* C12: when the body has left through `return e`, the call has captured exactly
\* one snapshot tagged with a return line; it is the last snapshot of the call,
\* its line is that of the executed return, and it binds the temporary to the
\* value returned to the caller.
C12_ReturnCapture ==
    (pc = "body" /\ frame.status = "returned"
        /\ ReturnsByStatement(wrapped.f, call.arg))
    => /\ Captured # <<>>
       /\ Last(Captured).lineno = Last(Reference(wrapped.f, call.arg).path)
       /\ Cardinality({i \in 1..Len(Captured) :
              Captured[i].lineno \in LinesOf({"Return"}, FUNCTIONS[wrapped.f].body)}) = 1
       /\ RETVAL_NAME \in DOMAIN Last(Captured).f_locals
       /\ \A i \in 1..(Len(Captured) - 1) : RETVAL_NAME \notin DOMAIN Captured[i].f_locals
       /\ SnapshotView(Last(Captured), heap).f_locals[RETVAL_NAME] = frame.ret
       /\ frame.ret = Reference(wrapped.f, call.arg).ret

\* total(2) has returned 1: its last snapshot is tagged with the return's line 6
\* and binds the temporary to 1.
C12_Witness ==
    /\ pc = "body" /\ frame.status = "returned"
    /\ FUNCTIONS[wrapped.f].name = "total"
    /\ call.arg = 2
    /\ Last(Captured).lineno = 6
    /\ Last(Captured).f_locals[RETVAL_NAME] = IntVal(1)

\* C13: a function is counted as recorded only once its source was retrieved,
\* its tree rewritten and compiled and its definition executed: while no call
\* of `record` is in progress and none has returned a wrapper, the counter is 0
\* (so that `record` still accepts a function).
C13_RegistrationAfterSetup ==
    (pc = "idle" /\ wrapped = None) => num_fns_recorded = 0

\* C14: a call of `record` made while the guard is set returns the function it
\* was given and changes nothing: the counter, the guard, the store, the
\* module, the wrapper, the file and the objects stay as they were.
C14_ReentrantGuard ==
    [][(_blocked /\ recordCalls' # recordCalls)
         => /\ \E f \in Fns : lastRecord' = [outcome |-> "unchanged", value |-> f]
            /\ pc = "exec" => lastRecord'.value = pending.f
            /\ UNCHANGED << num_fns_recorded, _blocked, _record_store_hidden_123,
                            env, wrapped, file, heap, pc >>]_vars

\* The definition being executed by exec has called `record`, which returned
\* the function unchanged, and the outer call is still inside exec.
C14_Witness ==
    /\ pc = "exec"
    /\ _blocked
    /\ lastRecord = [outcome |-> "unchanged", value |-> pending.f]
    /\ num_fns_recorded = 1

\* C19: the guard is clear whenever no call of `record` is in progress.
C19_GuardCleared ==
    pc = "idle" => ~_blocked

\* ---------------------------------------------- claims about the rewriter

IsCapture(item) == item.kind = "Expr" /\ item.call = RECORD_FN_NAME

\* The body begins with one capture call tagged l, and only one.
StartsWithOneCapture(body, l) ==
    /\ body # <<>>
    /\ IsCapture(body[1]) /\ body[1].n = l
    /\ Len(body) >= 2 => ~IsCapture(body[2])

RECURSIVE PlacementOk(_)
\* Every if, while and for of the rewritten body, at any depth, has its body and
\* its else branch begin with one capture call tagged with its own line, and is
\* not followed by a capture call.
PlacementOk(body) ==
    \A i \in 1..Len(body) :
        LET item == body[i]
        IN  /\ item.kind \in {"If", "While", "For"} =>
                   /\ StartsWithOneCapture(item.body, item.lineno)
                   /\ StartsWithOneCapture(item.orelse, item.lineno)
                   /\ i < Len(body) => ~IsCapture(body[i + 1])
            /\ hasattr(item, "body") => PlacementOk(item.body)
            /\ hasattr(item, "orelse") => PlacementOk(item.orelse)
            /\ hasattr(item, "handlers") =>
                   \A h \in 1..Len(item.handlers) : PlacementOk(item.handlers[h].body)

\* C15: in the tree `record` has rewritten, every statement that owns a nested
\* body (if, while, for, at any depth) has its body and its else branch (also
\* one the original lacks) begin with exactly one capture call tagged with the
\* statement's line, and no capture call directly follows the statement.
C15_CompoundPlacement ==
    pc = "exec" =>
        /\ PlacementOk(pending.new_body)
        /\ Kinds(pending.new_body) = Kinds(FUNCTIONS[pending.f].body) \cup {"Expr", "Assign"}
               \/ Kinds(pending.new_body) = Kinds(FUNCTIONS[pending.f].body) \cup {"Expr"}

\* "branch" is being bound: its `for` holds an `if` without else, whose else
\* branch is now the one capture call tagged with the line of the `if`.
C15_Witness ==
    /\ pc = "exec"
    /\ FUNCTIONS[pending.f].name = "branch"
    /\ pending.new_body[2].kind = "For"
    /\ pending.new_body[2].body[2].kind = "If"
    /\ pending.new_body[2].body[2].orelse = <<_make_record_state_call_expr(8)>>
    /\ FUNCTIONS[pending.f].body[2].body[1].orelse = <<>>

RECURSIVE PlainFollowed(_)
\* Every original statement without a nested body, other than a return, is
\* directly followed by one capture call tagged with its line, and only one.
PlainFollowed(body) ==
    \A i \in 1..Len(body) :
        LET item == body[i]
        IN  /\ (~IsCapture(item) /\ item.lineno > 0
                  /\ ~hasattr(item, "body") /\ item.kind # "Return") =>
                   /\ i < Len(body)
                   /\ IsCapture(body[i + 1]) /\ body[i + 1].n = item.lineno
                   /\ i + 2 <= Len(body) => ~IsCapture(body[i + 2])
            /\ hasattr(item, "body") => PlainFollowed(item.body)
            /\ hasattr(item, "orelse") => PlainFollowed(item.orelse)
            /\ hasattr(item, "handlers") =>
                   \A h \in 1..Len(item.handlers) : PlainFollowed(item.handlers[h].body)

RECURSIVE HandlersOk(_)
\* No handler body of the rewritten tree begins with a capture call; the call
\* tagged with the line of its first statement comes second.
HandlersOk(body) ==
    \A i \in 1..Len(body) :
        LET item == body[i]
        IN  /\ hasattr(item, "body") => HandlersOk(item.body)
            /\ hasattr(item, "orelse") => HandlersOk(item.orelse)
            /\ hasattr(item, "handlers") =>
                   \A h \in 1..Len(item.handlers) :
                       LET hb == item.handlers[h].body
                       IN  /\ hb # <<>>
                           /\ ~IsCapture(hb[1])
                           /\ hb[1].lineno > 0
                           /\ ~hasattr(hb[1], "body") /\ hb[1].kind # "Return" =>
                                  /\ Len(hb) >= 2
                                  /\ IsCapture(hb[2]) /\ hb[2].n = hb[1].lineno
                           /\ PlainFollowed(hb)
                           /\ HandlersOk(hb)

RECURSIVE HandlerLines(_)
\* The lines of the except clauses of a body.
HandlerLines(body) ==
    UNION { LET item == body[i]
            IN  (IF hasattr(item, "body") THEN HandlerLines(item.body) ELSE {})
                \cup (IF hasattr(item, "orelse") THEN HandlerLines(item.orelse) ELSE {})
                \cup (IF hasattr(item, "handlers")
                      THEN UNION { {item.handlers[h].lineno}
                                       \cup HandlerLines(item.handlers[h].body)
                                   : h \in 1..Len(item.handlers) }
                      ELSE {})
            : i \in 1..Len(body) }

RECURSIVE HandlerFirstLines(_)
\* The lines of the first statements of the handler bodies of a body.
HandlerFirstLines(body) ==
    UNION { LET item == body[i]
            IN  (IF hasattr(item, "body") THEN HandlerFirstLines(item.body) ELSE {})
                \cup (IF hasattr(item, "orelse") THEN HandlerFirstLines(item.orelse) ELSE {})
                \cup (IF hasattr(item, "handlers")
                      THEN UNION { {item.handlers[h].body[1].lineno}
                                       \cup HandlerFirstLines(item.handlers[h].body)
                                   : h \in 1..Len(item.handlers) }
                      ELSE {})
            : i \in 1..Len(body) }

TransferKinds == {"Break", "Continue", "Raise"}

\* How many statements among the first i of the path leave a snapshot.
SnapshotsWithin(f, path, i) ==
    Cardinality({ k \in 1..i : path[k] \notin LinesOf(TransferKinds, FUNCTIONS[f].body) })

\* C16: entering an exception handler records no snapshot of its own: the
\* handler body is rewritten without a capture call at its front, no snapshot
\* is ever tagged with the line of an except clause, and after a caught raise
\* the next snapshot is the one after the handler's first statement.
C16_HandlerPlacement ==
    /\ pc = "exec" => HandlersOk(pending.new_body)
    /\ pc = "body" =>
           /\ \A k \in 1..Len(Captured) :
                  Captured[k].lineno \notin HandlerLines(FUNCTIONS[wrapped.f].body)
           /\ frame.status \in {"returned", "raised"} =>
                  LET path == Reference(wrapped.f, call.arg).path
                  IN  \A i \in 1..(Len(path) - 1) :
                          path[i] \in LinesOf({"Raise"}, FUNCTIONS[wrapped.f].body) =>
                              LET n == SnapshotsWithin(wrapped.f, path, i)
                              IN  /\ path[i + 1] \in HandlerFirstLines(FUNCTIONS[wrapped.f].body)
                                  /\ Len(Captured) > n
                                  /\ Captured[n + 1].lineno = path[i + 1]

\* guarded(1) has run: the raise of line 5 was caught by the clause of line 7,
\* and the snapshot after those of lines 3 and 4 is that of line 8.
C16_Witness ==
    /\ pc = "body" /\ frame.status = "returned"
    /\ FUNCTIONS[wrapped.f].name = "guarded" /\ call.arg = 1
    /\ Markers(Captured) = <<3, 4, 8, 11>>
    /\ Reference(wrapped.f, call.arg).path = <<3, 4, 5, 8, 11>>

RECURSIVE Strip(_)
RECURSIVE StripHandlers(_)
\* The rewritten body with the inserted code taken out: capture calls dropped,
\* and the three statements of a rewritten return folded back into the return.
StripItem(item) ==
    LET i1 == IF hasattr(item, "body") THEN [item EXCEPT !.body = Strip(item.body)] ELSE item
        i2 == IF hasattr(item, "orelse") THEN [i1 EXCEPT !.orelse = Strip(i1.orelse)] ELSE i1
    IN  IF hasattr(item, "handlers")
        THEN [i2 EXCEPT !.handlers = StripHandlers(i2.handlers)]
        ELSE i2

StripHandlers(handlers) ==
    IF handlers = <<>> THEN <<>>
    ELSE << [Head(handlers) EXCEPT !.body = Strip(Head(handlers).body)] >>
         \o StripHandlers(Tail(handlers))

IsReturnTriple(body) ==
    /\ Len(body) >= 3
    /\ body[1].kind = "Assign" /\ body[1].lineno = 0 /\ body[1].target = RETVAL_NAME
    /\ IsCapture(body[2])
    /\ body[3].kind = "Return" /\ body[3].value = Name(RETVAL_NAME)

Strip(body) ==
    IF body = <<>> THEN <<>>
    ELSE IF IsCapture(Head(body)) THEN Strip(Tail(body))
    ELSE IF IsReturnTriple(body)
         THEN <<Return(body[2].n, body[1].value)>> \o Strip(SubSeq(body, 4, Len(body)))
    ELSE <<StripItem(Head(body))>> \o Strip(Tail(body))

\* C17: the rewriter only inserts: with the capture calls and the return
\* rewriting taken out, the rewritten body is the original body, every
\* statement in its place and order; and each plain original statement is
\* directly followed by exactly one capture call tagged with that statement's
\* line.
C17_OrderPreserved ==
    pc = "exec" =>
        /\ Strip(pending.new_body) = FUNCTIONS[pending.f].body
        /\ PlainFollowed(pending.new_body)

\* "total" is being bound: the assignment of line 3 is first, followed by its
\* capture call, then the loop of line 4.
C17_Witness ==
    /\ pc = "exec"
    /\ FUNCTIONS[pending.f].name = "total"
    /\ pending.new_body[1] = FUNCTIONS[pending.f].body[1]
    /\ pending.new_body[2] = _make_record_state_call_expr(3)
    /\ pending.new_body[3].kind = "For"
    /\ Len(pending.new_body) > Len(FUNCTIONS[pending.f].body)

Count(seq, l) == Cardinality({ i \in DOMAIN seq : seq[i] = l })

BodyEnded == pc = "body" /\ frame.status \in {"returned", "raised"}

\* C18: the snapshot of a compound statement comes from inside its body or its
\* else branch, never from after it: when the body has run, the line of each
\* if, while and for is recorded once for each evaluation of the statement.  A
\* loop that runs k iterations and ends normally is recorded k + 1 times; one
\* left by break in its k-th iteration, k times.
C18_NoDoubleRecording ==
    BodyEnded =>
        LET f    == wrapped.f
            path == Reference(f, call.arg).path
            M    == Markers(Captured)
        IN  /\ \A l \in LinesOf({"If", "While", "For"}, FUNCTIONS[f].body) :
                   Count(M, l) = Count(path, l)
            /\ FUNCTIONS[f].name = "countdown" => Count(M, 3) = call.arg + 1
            /\ FUNCTIONS[f].name = "cond" => Count(M, 3) = 1
            /\ (FUNCTIONS[f].name = "search" /\ call.arg >= 1) => Count(M, 3) = call.arg

\* countdown(2) has run: two iterations and the final test, three snapshots of
\* the line of the while.
C18_Witness ==
    /\ BodyEnded
    /\ FUNCTIONS[wrapped.f].name = "countdown" /\ call.arg = 2
    /\ Count(Markers(Captured), 3) = 3

\* C20: break, continue and raise are followed by a capture call that never
\* runs: no snapshot is tagged with the line of one of them, and when the body
\* has run the snapshots are those of the statements executed, in order, less
\* the break, continue and raise statements.
C20_TransferUnrecorded ==
    pc = "body" =>
        LET f        == wrapped.f
            transfer == LinesOf(TransferKinds, FUNCTIONS[f].body)
            Keep(l)  == l \notin transfer
        IN  /\ \A k \in 1..Len(Captured) : Captured[k].lineno \notin transfer
            /\ frame.status \in {"returned", "raised"} =>
                   Markers(Captured) = SelectSeq(Reference(f, call.arg).path, Keep)

\* search(2) has run: the continue of line 6 and the break of line 7 were
\* executed and left no snapshot.
C20_Witness ==
    /\ BodyEnded
    /\ FUNCTIONS[wrapped.f].name = "search" /\ call.arg = 2
    /\ Reference(wrapped.f, call.arg).path = <<3, 4, 5, 6, 3, 4, 5, 7, 10>>
    /\ Markers(Captured) = <<3, 4, 5, 3, 4, 5, 10>>

====
